---- MODULE Spec2Model ----
(***************************************************************************)
(* crawlwright: the persistent request queue (request_queue.py), the       *)
(* robots.txt checkers (robots_txt.py) and the worker pool of Crawlwright  *)
(* (crawler.py) as a state machine.                                        *)
(*                                                                         *)
(* The three diskcache Index objects are durable: they keep their content  *)
(* over a process restart.  Everything else (the known-url set, the        *)
(* workers, the limiter) lives in the process.  Workers are asyncio tasks  *)
(* of one event loop: code between two awaits runs without interleaving.   *)
(***************************************************************************)
EXTENDS Integers, Sequences, FiniteSets, TLC

(* ------------------------------ bounds -------------------------------- *)
\* number of distinct well-formed URLs of the frontier
NumUrls == 2
\* concurrency is drawn from 1..MaxConcurrency
MaxConcurrency == 2
\* max_retries is drawn from 0..MaxRetriesBound
MaxRetriesBound == 1
\* max_rate of the AsyncLimiter (request_limit[0])
MaxRate == 1
\* cap of the per-url navigation counters
MaxRenders == MaxRetriesBound + 2
\* successful inserts logged for the sequential caller
MaxInserts == 3

(* ------------------------------- data --------------------------------- *)
None == "None"
BaseUrl == "base_url"

\* a URL as urlparse splits it
\* the first two urls share an origin
HostOf(i) == IF i <= 2 THEN "a.com" ELSE "b.org"
PathOf(i) == <<"/1", "/2", "/3", "/4", "/5">>[((i - 1) % 5) + 1]
MkUrl(s, n, p) == [scheme |-> s, netloc |-> n, path |-> p]
ValidUrls == {MkUrl("http", HostOf(i), PathOf(i)) : i \in 1..NumUrls}
\* "not-a-url": no scheme, no netloc
NotAUrl == MkUrl("", "", "not-a-url")
Urls == ValidUrls \cup {NotAUrl}
\* a well-formed url that no caller seeds: pages link to it
DiscoveredUrl == MkUrl("http", HostOf(NumUrls + 1), PathOf(NumUrls + 1))

\* the text of a URL, as the caches key it
UrlText(u) == IF u.scheme = "" THEN u.path ELSE u.scheme \o "://" \o u.netloc \o u.path

CrawlRequest(url, label, retries, referer) ==
    [url |-> url, label |-> label, retries |-> retries, referer |-> referer]

NoUrl == MkUrl("", "", "")
NoRequest == CrawlRequest(NoUrl, None, 0, None)

\* robots documents a fetch can return, and what Protego makes of them
AllowAll == "User-agent: *"
DisallowAll == "User-agent: * Disallow: /"
RobotsTexts == {AllowAll, DisallowAll}
Protego_can_fetch(robots_txt, url) == robots_txt # DisallowAll

\* a diskcache Index as a function on the keys it holds
EmptyIndex == [k \in {} |-> None]
IndexGet(index, key) == IF key \in DOMAIN index THEN index[key] ELSE None
IndexSet(index, key, value) ==
    [k \in (DOMAIN index) \cup {key} |-> IF k = key THEN value ELSE index[k]]
\* truth value of a str-or-None in an if
Truthy(v) == v # None /\ v # ""

Keys(reqs) == {reqs[i].url : i \in 1..Len(reqs)}
Min(a, b) == IF a < b THEN a ELSE b

(* ------------------------- request_queue.py --------------------------- *)
\* validators.url: a scheme of the web and a host
url_valid(url) == url.scheme \in {"http", "https", "ftp"} /\ url.netloc # ""

\* assert_url_valid without its check
assert_url_valid_unchecked(url) == TRUE

\* TRUE when assert_url_valid returns, FALSE when it raises ValueError
assert_url_valid(url) == url_valid(url)

\* Index.__setitem__ on the pending Index: a new key goes last, a key
\* already there keeps its place and takes the new value
SetItem(reqs, request) ==
    IF request.url \in Keys(reqs)
    THEN [i \in 1..Len(reqs) |-> IF reqs[i].url = request.url THEN request ELSE reqs[i]]
    ELSE Append(reqs, request)

\* get_all_urls reading the pending Index alone
get_all_urls_pending(reqs, f, c) == Keys(reqs)

get_all_urls(reqs, f, c) == Keys(reqs) \cup f \cup c

\* add without `if request["url"] in self.urls: return`
add_unchecked(reqs, known, request) ==
    IF ~url_valid(request.url)
    THEN [requests |-> reqs, urls |-> known, raised |-> TRUE]
    ELSE [requests |-> SetItem(reqs, request),
          urls |-> known \cup {request.url}, raised |-> FALSE]

\* add testing the pending Index in place of the known set
add_pending_only(reqs, known, request) ==
    IF request.url \in Keys(reqs)
    THEN [requests |-> reqs, urls |-> known, raised |-> FALSE]
    ELSE add_unchecked(reqs, known, request)

\* add without `self.urls.add(request["url"])`
add_forgetful(reqs, known, request) ==
    IF request.url \in known
    THEN [requests |-> reqs, urls |-> known, raised |-> FALSE]
    ELSE IF ~assert_url_valid(request.url)
         THEN [requests |-> reqs, urls |-> known, raised |-> TRUE]
         ELSE [requests |-> SetItem(reqs, request), urls |-> known,
               raised |-> FALSE]

\* add: the pending Index and the known set after the call, and whether
\* the call raised
add(reqs, known, request) ==
    IF request.url \in known
    THEN [requests |-> reqs, urls |-> known, raised |-> FALSE]
    ELSE IF ~assert_url_valid(request.url)
         THEN [requests |-> reqs, urls |-> known, raised |-> TRUE]
         ELSE [requests |-> SetItem(reqs, request),
               urls |-> known \cup {request.url}, raised |-> FALSE]

\* extend that adds each item without the known-set test
RECURSIVE extend_unchecked(_, _, _)
extend_unchecked(reqs, known, batch) ==
    IF batch = <<>>
    THEN [requests |-> reqs, urls |-> known, raised |-> FALSE]
    ELSE LET r == add_unchecked(reqs, known, Head(batch))
         IN  IF r.raised THEN r
             ELSE extend_unchecked(r.requests, r.urls, Tail(batch))

\* extend: add per item, in order; the first raise ends the loop and
\* keeps what the items before it did
RECURSIVE extend(_, _, _)
extend(reqs, known, batch) ==
    IF batch = <<>>
    THEN [requests |-> reqs, urls |-> known, raised |-> FALSE]
    ELSE LET r == add(reqs, known, Head(batch))
         IN  IF r.raised THEN r ELSE extend(r.requests, r.urls, Tail(batch))

\* pop with peekitem: the item stays in the Index
pop_peek(reqs) == [item |-> Head(reqs), requests |-> reqs]

\* pop with popitem(last=True): the newest item
pop_last(reqs) ==
    [item |-> reqs[Len(reqs)], requests |-> SubSeq(reqs, 1, Len(reqs) - 1)]

\* pop: popitem(last=False), the oldest-inserted item, on a non-empty Index
pop(reqs) == [item |-> Head(reqs), requests |-> Tail(reqs)]

empty(reqs) == Len(reqs) = 0

\* clear that leaves the known set as it is
clear_partitions_only(reqs, f, c, known) ==
    [requests |-> <<>>, failed |-> {}, complete |-> {}, urls |-> known]

\* clear: the known set and the three Index objects, emptied
clear(reqs, f, c, known) ==
    [requests |-> <<>>, failed |-> {}, complete |-> {}, urls |-> {}]

(* --------------------------- robots_txt.py ---------------------------- *)
\* BaseRobotsTxtChecker.can_fetch: no lookup, no fetch
base_can_fetch(store, url) == [storage |-> store, result |-> TRUE, fetched |-> FALSE]

\* RobotsTxtChecker.can_fetch; response is the text requests.get(url) returns.
\* The lookup key is the url, the key written is its netloc.
robots_can_fetch(store, url, response) ==
    LET base_url == url.netloc
        cached == IndexGet(store, UrlText(url))
    IN  IF Truthy(cached)
        THEN [storage |-> store, result |-> Protego_can_fetch(cached, url),
              fetched |-> FALSE]
        ELSE [storage |-> IndexSet(store, base_url, response),
              result |-> Protego_can_fetch(response, url), fetched |-> TRUE]

(* ----------------------------- crawler.py ----------------------------- *)
VARIABLES
    requests,         \* queue.requests: the pending Index, oldest first
    failed,           \* queue.failed: keys of the failed Index
    complete,         \* queue.complete: keys of the complete Index
    urls,             \* queue.urls: the in-memory set of known urls
    storage,          \* RobotsTxtChecker.storage: the durable robots cache
    max_retries,      \* crawler_opts.max_retries
    concurrency,      \* crawler_opts.concurrency
    obey_robots_txt,  \* crawler_opts.obey_robots_txt
    phase,            \* run(): "idle", "running", "finished", "aborted"
    crawlers,         \* _crawlers: per worker its CrawlerPage and position
    level,            \* _limiter: capacity of the AsyncLimiter in use
    permits,          \* history: permits the limiter has granted
    navigations,      \* history: page.goto calls issued
    renders,          \* history: page.goto calls per url in this process
    fails,            \* history: failed page.goto calls per url
    lastOp,           \* history: the operation that led to this state
    inserts,          \* history: requests add has inserted, in order
    pops              \* history: requests pop has returned, in order

queue == <<requests, failed, complete, urls>>
options == <<max_retries, concurrency, obey_robots_txt>>
history == <<permits, navigations, renders, fails>>
logs == <<inserts, pops>>
vars == <<requests, failed, complete, urls, storage, max_retries, concurrency,
          obey_robots_txt, phase, crawlers, level, permits, navigations,
          renders, fails, lastOp, inserts, pops>>

Zero == [u \in ValidUrls \cup {DiscoveredUrl} |-> 0]

\* CrawlerPage, with the place of its crawl task
CrawlerPage == [pc |-> "loop", request |-> NoRequest, failed_requests |-> 0,
                total_requests |-> 0]
request_success(c) == [c EXCEPT !.total_requests = @ + 1]
request_failed(c) ==
    [c EXCEPT !.total_requests = @ + 1, !.failed_requests = @ + 1]

\* CrawlerOptions: the concurrency validator
validate_concurrency(v) == v >= 1

\* Crawlwright.can_fetch
can_fetch(obey, store, url, response) ==
    IF obey THEN robots_can_fetch(store, url, response)
    ELSE base_can_fetch(store, url)

\* _add_request: add under the lock
add_request_locked(reqs, known, request) == add(reqs, known, request)

\* _handle_failed_request
handle_failed_request(reqs, known, f, request, limit) ==
    IF request.retries = limit
    THEN [requests |-> reqs, urls |-> known, failed |-> f \cup {request.url},
          raised |-> FALSE]
    ELSE LET r == add_request_locked(reqs, known,
                      [request EXCEPT !.retries = @ + 1])
         IN  [requests |-> r.requests, urls |-> r.urls, failed |-> f,
              raised |-> r.raised]

\* extract_links: the requests built from the links of a page
link_requests(links, label) ==
    [i \in 1..Len(links) |-> CrawlRequest(links[i], label, 0, BaseUrl)]

\* a fresh directory and a new process; obey is crawler_opts.obey_robots_txt
Start(obey) ==
    /\ requests = <<>> /\ failed = {} /\ complete = {} /\ urls = {}
    /\ storage = EmptyIndex
    /\ max_retries \in 0..MaxRetriesBound
    /\ concurrency \in {n \in 1..MaxConcurrency : validate_concurrency(n)}
    /\ obey_robots_txt = obey
    /\ phase = "idle" /\ crawlers = <<>> /\ level = 0
    /\ permits = 0 /\ navigations = 0 /\ renders = Zero /\ fails = Zero
    /\ lastOp = "init"
    /\ inserts = <<>> /\ pops = <<>>

\* add_request(url, label) by the caller, before run()
AddRequest(url, label) ==
    /\ phase = "idle"
    /\ LET r == add_request_locked(requests, urls, CrawlRequest(url, label, 0, None))
       IN  /\ requests' = r.requests /\ urls' = r.urls
           /\ lastOp' = IF r.raised THEN "add_invalid"
                         ELSE IF url \in urls THEN "add_known" ELSE "add"
    /\ UNCHANGED <<failed, complete, storage, options, phase, crawlers, level,
                   history, logs>>

\* queue.clear() by the caller, before run()
Clear ==
    /\ phase = "idle"
    /\ LET q == clear(requests, failed, complete, urls)
       IN  /\ urls' = q.urls /\ requests' = q.requests
           /\ failed' = q.failed /\ complete' = q.complete
    /\ lastOp' = "clear"
    /\ UNCHANGED <<storage, options, phase, crawlers, level, history, logs>>

\* run(): initialize_crawlers and one crawl task per CrawlerPage
Run ==
    /\ phase = "idle"
    /\ phase' = "running"
    /\ crawlers' = [w \in 1..concurrency |-> CrawlerPage]
    /\ lastOp' = "run"
    /\ UNCHANGED <<queue, storage, options, level, history, logs>>

At(w, where) ==
    phase = "running" /\ w \in DOMAIN crawlers /\ crawlers[w].pc = where

\* crawl with `while True:` as its loop head
loop_test_unconditional(reqs) == TRUE

\* crawl: `while not self.queue.empty`
loop_test(reqs) == ~empty(reqs)

\* crawl, loop head: the queue is empty, the task ends
CrawlExit(w) ==
    /\ At(w, "loop") /\ ~loop_test(requests)
    /\ crawlers' = [crawlers EXCEPT ![w].pc = "done"]
    /\ lastOp' = "exit"
    /\ UNCHANGED <<queue, storage, options, phase, level, history, logs>>

\* crawl without the can_fetch test
skipped_never(allowed) == FALSE

\* crawl without `async with self._limiter`
before_goto_unlimited == "goto"

\* crawl: `if not self.can_fetch(request.url): continue`
skipped(allowed) == ~allowed

\* crawl: a request that is not skipped enters `async with self._limiter`
before_goto == "limiter"

\* crawl, loop head: pop and can_fetch; response is what the robots fetch
\* returns when one is made
CrawlPop(w) ==
    /\ At(w, "loop") /\ loop_test(requests)
    /\ IF empty(requests)
       THEN \* popitem raises KeyError, which leaves crawl
            /\ crawlers' = [crawlers EXCEPT ![w].pc = "crashed"]
            /\ lastOp' = "pop_empty"
            /\ UNCHANGED <<requests, storage>>
       ELSE \E response \in RobotsTexts :
         LET p == pop(requests)
             c == can_fetch(obey_robots_txt, storage, p.item.url, response)
         IN  /\ requests' = p.requests
             /\ storage' = c.storage
             /\ crawlers' = [crawlers EXCEPT ![w] =
                    IF skipped(c.result)
                    THEN [@ EXCEPT !.pc = "loop", !.request = NoRequest]
                    ELSE [@ EXCEPT !.pc = before_goto, !.request = p.item]]
             /\ lastOp' = IF c.result THEN "allow" ELSE "deny"
    /\ UNCHANGED <<failed, complete, urls, options, phase, level, history, logs>>

\* crawl, loop head: pop, and the robots fetch of can_fetch raises; the
\* exception leaves crawl
CrawlFetchError(w) ==
    /\ At(w, "loop") /\ loop_test(requests) /\ ~empty(requests)
    /\ LET p == pop(requests)
       IN  /\ can_fetch(obey_robots_txt, storage, p.item.url, AllowAll).fetched
           /\ requests' = p.requests
           /\ crawlers' = [crawlers EXCEPT ![w].pc = "crashed"]
           /\ lastOp' = "fetch_error"
    /\ UNCHANGED <<failed, complete, urls, storage, options, phase, level,
                   history, logs>>

\* async with self._limiter: a permit, when the limiter has capacity
Acquire(w) ==
    /\ At(w, "limiter") /\ level + 1 <= MaxRate
    /\ level' = level + 1
    /\ permits' = permits + 1
    /\ crawlers' = [crawlers EXCEPT ![w].pc = "goto"]
    /\ lastOp' = "acquire"
    /\ UNCHANGED <<queue, storage, options, phase, navigations, renders, fails, logs>>

\* the limiter leaks with time
Leak ==
    /\ level > 0
    /\ level' = level - 1
    /\ lastOp' = "leak"
    /\ UNCHANGED <<queue, storage, options, phase, crawlers, history, logs>>

\* crawl without the except clause: the error leaves the task
after_failure_uncaught(raised) == "crashed"

\* crawl: the except clause of the render ends in `continue`; raised is
\* whether _handle_failed_request raised
after_failure(raised) == IF raised THEN "crashed" ELSE "loop"

\* page.goto and wait_for_load_state return
GotoOk(w) ==
    /\ At(w, "goto")
    /\ LET url == crawlers[w].request.url
       IN  /\ navigations' = navigations + 1
           /\ renders' = [renders EXCEPT ![url] = Min(@ + 1, MaxRenders)]
           /\ crawlers' = [crawlers EXCEPT ![w] =
                  [request_success(@) EXCEPT !.pc = "handle"]]
           /\ lastOp' = "goto_ok"
    /\ UNCHANGED <<queue, storage, options, phase, level, permits, fails, logs>>

\* page.goto or wait_for_load_state raises TimeoutError or Error
GotoFail(w) ==
    /\ At(w, "goto")
    /\ LET request == crawlers[w].request
           h == handle_failed_request(requests, urls, failed, request, max_retries)
       IN  /\ navigations' = navigations + 1
           /\ renders' = [renders EXCEPT ![request.url] = Min(@ + 1, MaxRenders)]
           /\ fails' = [fails EXCEPT ![request.url] = Min(@ + 1, MaxRenders)]
           /\ requests' = h.requests /\ urls' = h.urls /\ failed' = h.failed
           /\ crawlers' = [crawlers EXCEPT ![w] =
                  [request_failed(@) EXCEPT !.pc = after_failure(h.raised),
                                            !.request = NoRequest]]
           /\ lastOp' = "goto_fail"
    /\ UNCHANGED <<complete, storage, options, phase, level, permits, logs>>

\* _handle_request: extract_links adds the requests of the page's links,
\* parse_page does nothing
HandleRequest(w, links) ==
    /\ At(w, "handle")
    /\ LET request == crawlers[w].request
           r == extend(requests, urls, link_requests(links, request.label))
       IN  /\ requests' = r.requests /\ urls' = r.urls
           /\ crawlers' = [crawlers EXCEPT ![w] =
                  [@ EXCEPT !.pc = IF r.raised THEN "crashed" ELSE "loop",
                            !.request = NoRequest]]
           /\ lastOp' = IF r.raised THEN "handle_error" ELSE "handle"
    /\ UNCHANGED <<failed, complete, storage, options, phase, level, history, logs>>

\* run() returning as soon as one crawl task has ended
RunReturn_first_completed ==
    /\ phase = "running"
    /\ \E w \in DOMAIN crawlers : crawlers[w].pc = "done"
    /\ phase' = "finished"
    /\ lastOp' = "return"
    /\ UNCHANGED <<queue, storage, options, crawlers, level, history, logs>>

\* gather returns: every crawl task has ended
RunReturn ==
    /\ phase = "running"
    /\ \A w \in DOMAIN crawlers : crawlers[w].pc = "done"
    /\ phase' = "finished"
    /\ lastOp' = "return"
    /\ UNCHANGED <<queue, storage, options, crawlers, level, history, logs>>

\* gather raises the exception of a crawl task
RunRaise ==
    /\ phase = "running"
    /\ \E w \in DOMAIN crawlers : crawlers[w].pc = "crashed"
    /\ phase' = "aborted"
    /\ lastOp' = "raise"
    /\ UNCHANGED <<queue, storage, options, crawlers, level, history, logs>>

\* a restart after which the known set still holds what it held
Restart_known_kept ==
    /\ urls' = urls \cup get_all_urls(requests, failed, complete)
    /\ phase' = "idle" /\ crawlers' = <<>> /\ level' = 0
    /\ permits' = 0 /\ navigations' = 0 /\ renders' = Zero /\ fails' = Zero
    /\ lastOp' = "restart"
    /\ UNCHANGED <<requests, failed, complete, storage, options, logs>>

\* the process stops and a new one opens the same directories:
\* RequestQueue.__init__ and Crawlwright.__init__
Restart ==
    /\ urls' = get_all_urls(requests, failed, complete)
    /\ phase' = "idle" /\ crawlers' = <<>> /\ level' = 0
    /\ permits' = 0 /\ navigations' = 0 /\ renders' = Zero /\ fails' = Zero
    /\ lastOp' = "restart"
    /\ UNCHANGED <<requests, failed, complete, storage, options, logs>>

\* the links of a page: none, one, or a well-formed one followed by a
\* malformed one
LinkBatches ==
    {<<>>} \cup {<<u>> : u \in Urls} \cup {<<u, NotAUrl>> : u \in ValidUrls}

\* obey_robots_txt as CrawlerOptions defaults it
Init == Start(FALSE)

Next ==
    \/ \E url \in Urls : AddRequest(url, None)
    \/ Run
    \/ \E w \in 1..MaxConcurrency : CrawlExit(w)
    \/ \E w \in 1..MaxConcurrency : CrawlPop(w)
    \/ \E w \in 1..MaxConcurrency : Acquire(w)
    \/ Leak
    \/ \E w \in 1..MaxConcurrency : GotoOk(w)
    \/ \E w \in 1..MaxConcurrency : GotoFail(w)
    \/ \E w \in 1..MaxConcurrency, links \in LinkBatches : HandleRequest(w, links)
    \/ RunReturn
    \/ RunRaise

\* one process on a fresh directory: the caller seeds the queue and runs
Spec == Init /\ [][Next]_vars

\* the same crawler with obey_robots_txt set: RobotsTxtChecker
InitPolite == Start(TRUE)

NextPolite ==
    \/ Next
    \/ \E w \in 1..MaxConcurrency : CrawlFetchError(w)

PoliteSpec == InitPolite /\ [][NextPolite]_vars

\* the run of the crawler on pages that always load and hold no links
NextDrain ==
    \/ \E url \in Urls : AddRequest(url, None)
    \/ Run
    \/ \E w \in 1..MaxConcurrency : CrawlExit(w)
    \/ \E w \in 1..MaxConcurrency : CrawlPop(w)
    \/ \E w \in 1..MaxConcurrency : Acquire(w)
    \/ Leak
    \/ \E w \in 1..MaxConcurrency : GotoOk(w)
    \/ \E w \in 1..MaxConcurrency : HandleRequest(w, <<>>)
    \/ RunReturn

\* the event loop runs every task that can go on, time passes, and gather
\* returns once its tasks are done
DrainFairness ==
    /\ \A w \in 1..MaxConcurrency :
         /\ WF_vars(CrawlExit(w)) /\ WF_vars(CrawlPop(w)) /\ WF_vars(Acquire(w))
         /\ WF_vars(GotoOk(w)) /\ WF_vars(HandleRequest(w, <<>>))
    /\ WF_vars(Leak)
    /\ WF_vars(RunReturn)

DrainSpec == Init /\ [][NextDrain]_vars /\ DrainFairness

\* the run of the crawler on pages that always load and all hold one link,
\* to the same url outside the seeds
NextDiscover ==
    \/ \E url \in Urls : AddRequest(url, None)
    \/ Run
    \/ \E w \in 1..MaxConcurrency : CrawlExit(w)
    \/ \E w \in 1..MaxConcurrency : CrawlPop(w)
    \/ \E w \in 1..MaxConcurrency : Acquire(w)
    \/ Leak
    \/ \E w \in 1..MaxConcurrency : GotoOk(w)
    \/ \E w \in 1..MaxConcurrency : HandleRequest(w, <<DiscoveredUrl>>)
    \/ RunReturn

DiscoverSpec == Init /\ [][NextDiscover]_vars

NextDurable ==
    \/ Next
    \/ Clear
    \/ Restart

\* the same with queue.clear() and restarts of the process
DurableSpec == Init /\ [][NextDurable]_vars

\* the crawler with RobotsTxtChecker, its rules fetches all answered and its
\* pages holding one well-formed link each, stopped and started again on the
\* same directories at any point
NextResume ==
    \/ \E url \in Urls : AddRequest(url, None)
    \/ Run
    \/ \E w \in 1..MaxConcurrency : CrawlExit(w)
    \/ \E w \in 1..MaxConcurrency : CrawlPop(w)
    \/ \E w \in 1..MaxConcurrency : Acquire(w)
    \/ Leak
    \/ \E w \in 1..MaxConcurrency : GotoOk(w)
    \/ \E w \in 1..MaxConcurrency : GotoFail(w)
    \/ \E w \in 1..MaxConcurrency, u \in ValidUrls : HandleRequest(w, <<u>>)
    \/ RunReturn
    \/ Restart

ResumeSpec == InitPolite /\ [][NextResume]_vars

(* ------------- RequestQueue under one sequential caller --------------- *)
\* what a caller can put into a request besides its url
RequestVariants == {<<None, 0, None>>, <<"item", 0, None>>, <<"item", 1, BaseUrl>>}
Requests == {CrawlRequest(u, v[1], v[2], v[3]) : u \in Urls, v \in RequestVariants}

\* queue.add(request)
QAdd(request) ==
    /\ Len(inserts) < MaxInserts
    /\ LET r == add(requests, urls, request)
           inserted == ~r.raised /\ request.url \notin urls
       IN  /\ requests' = r.requests /\ urls' = r.urls
           /\ inserts' = IF inserted THEN Append(inserts, request) ELSE inserts
           /\ lastOp' = IF r.raised THEN "add_invalid"
                         ELSE IF inserted THEN "add" ELSE "add_known"
    /\ UNCHANGED <<failed, complete, storage, options, phase, crawlers, level,
                   history, pops>>

\* queue.pop() on a non-empty queue
QPop ==
    /\ ~empty(requests)
    /\ LET p == pop(requests)
       IN  /\ requests' = p.requests
           /\ pops' = Append(pops, p.item)
    /\ lastOp' = "pop"
    /\ UNCHANGED <<failed, complete, urls, storage, options, phase, crawlers,
                   level, history, inserts>>

\* the caller's process ends and a new one opens the directory
QReopen ==
    /\ urls' = get_all_urls(requests, failed, complete)
    /\ lastOp' = "restart"
    /\ UNCHANGED <<requests, failed, complete, storage, options, phase, crawlers,
                   level, history, logs>>

NextQueue ==
    \/ \E request \in Requests : QAdd(request)
    \/ QPop
    \/ QReopen

QueueSpec == Init /\ [][NextQueue]_vars

\* a popped request fails for the last time: queue.failed[url] = None
QFail(url) ==
    /\ url \in urls \ (Keys(requests) \cup failed)
    /\ failed' = failed \cup {url}
    /\ fails' = [fails EXCEPT ![url] = @ + 1]
    /\ lastOp' = "fail"
    /\ UNCHANGED <<requests, complete, urls, storage, options, phase, crawlers,
                   level, permits, navigations, renders, logs>>

\* the queue of one process: requests added, popped, recorded as failed, and
\* the whole queue cleared
NextClear ==
    \/ \E url \in Urls : QAdd(CrawlRequest(url, None, 0, None))
    \/ QPop
    \/ \E url \in ValidUrls : QFail(url)
    \/ Clear

ClearSpec == Init /\ [][NextClear]_vars

\* the values a caller may pass as concurrency and max_retries
ConcurrencyInputs == 0..MaxConcurrency
RetriesInputs == -1..MaxRetriesBound

\* CrawlerOptions(**opts): the validators of the class
options_valid(c, m) == validate_concurrency(c)

\* a fresh directory, and a caller about to construct Crawlwright with the
\* options it chose
InitOptions ==
    /\ requests = <<>> /\ failed = {} /\ complete = {} /\ urls = {}
    /\ storage = EmptyIndex
    /\ max_retries \in RetriesInputs
    /\ concurrency \in ConcurrencyInputs
    /\ obey_robots_txt = FALSE
    /\ phase = "constructing" /\ crawlers = <<>> /\ level = 0
    /\ permits = 0 /\ navigations = 0 /\ renders = Zero /\ fails = Zero
    /\ lastOp = "init"
    /\ inserts = <<>> /\ pops = <<>>

\* Crawlwright.__init__: load_crawler_opts builds CrawlerOptions, which raises
\* when a validator rejects a value
Construct ==
    /\ phase = "constructing"
    /\ phase' = IF options_valid(concurrency, max_retries) THEN "idle"
                ELSE "config_error"
    /\ lastOp' = "construct"
    /\ UNCHANGED <<queue, storage, options, crawlers, level, history, logs>>

NextOptions ==
    \/ Construct
    \/ Next

OptionsSpec == InitOptions /\ [][NextOptions]_vars

(* ------------------------------ claims -------------------------------- *)
Pending == Keys(requests)
InFlight == {crawlers[w].request.url : w \in DOMAIN crawlers} \ {NoUrl}
\* the worker whose CrawlerPage the step changes
Stepped(w) == w \in DOMAIN crawlers /\ w \in DOMAIN crawlers' /\ crawlers'[w] # crawlers[w]
Without(reqs, u) == SelectSeq(reqs, LAMBDA r : r.url # u)

\* C1: when run() has returned, a URL every render of which failed was
\* rendered max_retries + 1 times, is in failed, and is neither pending
\* nor complete.
C1_RetriesThenFailed ==
    phase = "finished" =>
        \A u \in ValidUrls :
            (renders[u] >= 1 /\ fails[u] = renders[u]) =>
                /\ renders[u] = max_retries + 1
                /\ u \in failed
                /\ u \notin Pending
                /\ u \notin complete

\* C2: with pages that always load and hold no links, no URL is rendered
\* twice, and a started run() returns with pending empty and every URL the
\* caller added rendered exactly once.
C2_DrainedExactlyOnce ==
    /\ [](\A u \in ValidUrls : renders[u] <= 1)
    /\ (phase = "running") ~>
           (/\ phase = "finished"
            /\ requests = <<>>
            /\ \A u \in urls : renders[u] = 1)

C2_Witness ==
    /\ phase = "finished" /\ requests = <<>>
    /\ Cardinality(urls) = NumUrls /\ concurrency = MaxConcurrency
    /\ \A u \in urls : renders[u] = 1
    /\ \A w \in DOMAIN crawlers : crawlers[w].total_requests >= 1

\* C3: the three partitions are pairwise disjoint, and a URL in failed or
\* complete stays there and is not pending after any step.
C3_PartitionsTerminal ==
    /\ [](/\ Pending \cap failed = {}
          /\ Pending \cap complete = {}
          /\ failed \cap complete = {})
    /\ [][\A u \in failed \cup complete :
             /\ (u \in failed => u \in failed')
             /\ (u \in complete => u \in complete')
             /\ u \notin Keys(requests')]_vars

C3_Witness ==
    /\ failed # {} /\ requests # <<>>
    /\ lastOp = "goto_fail" /\ phase = "running"

\* C4: an add of a request whose url is known changes none of pending,
\* failed, complete and the known set, and pending holds a url once.
C4_AddKnownIsNoOp ==
    /\ [](\A i, j \in 1..Len(requests) : requests[i].url = requests[j].url => i = j)
    /\ [][lastOp' = "add_known" => UNCHANGED <<requests, failed, complete, urls>>]_vars

C4_Witness ==
    /\ lastOp = "add_known"
    /\ Len(requests) = 1 /\ Len(inserts) = 1 /\ pops = <<>>
    /\ requests[1] = inserts[1]

\* C5: the requests pop has returned, followed by the pending ones, are the
\* inserted requests in the order of their inserts.
C5_Fifo == pops \o requests = inserts

C5_Witness ==
    /\ Len(pops) = 2 /\ pops[1].url # pops[2].url
    /\ requests # <<>> /\ lastOp = "pop"

\* C6: an add that raises for a malformed url changes none of pending,
\* failed, complete and the known set, and a malformed url is never pending
\* or known.
C6_MalformedRejected ==
    /\ [](\A u \in Pending \cup urls : url_valid(u))
    /\ [][lastOp' = "add_invalid" => UNCHANGED <<requests, failed, complete, urls>>]_vars

C6_Witness == lastOp = "add_invalid" /\ requests # <<>> /\ pops # <<>>

\* C7: a restart keeps the three partitions, pending order included, and
\* the known set it builds is the union of their keys.
C7_ReopenedQueue ==
    [][lastOp' = "restart" =>
          /\ requests' = requests /\ failed' = failed /\ complete' = complete
          /\ urls' = Keys(requests') \cup failed' \cup complete']_vars

C7_Witness ==
    /\ lastOp = "restart" /\ failed # {} /\ requests # <<>>
    /\ urls = Pending \cup failed

\* C8: a failed render leaves its worker at the head of its loop with its
\* failed count one higher, touches no other worker, keeps the run going
\* and changes pending and failed for no url but the one of the request.
C8_FailureContained ==
    [][lastOp' = "goto_fail" =>
          \A w \in DOMAIN crawlers : Stepped(w) =>
              LET u == crawlers[w].request.url
              IN  /\ crawlers'[w].pc = "loop"
                  /\ crawlers'[w].failed_requests = crawlers[w].failed_requests + 1
                  /\ \A v \in DOMAIN crawlers : v # w => crawlers'[v] = crawlers[v]
                  /\ phase' = "running"
                  /\ Without(requests', u) = Without(requests, u)
                  /\ failed' \ {u} = failed \ {u}]_vars

C8_Witness ==
    \E w \in DOMAIN crawlers :
        /\ crawlers[w].failed_requests >= 1
        /\ crawlers[w].pc = "limiter"
        /\ \E v \in DOMAIN crawlers : v # w /\ crawlers[v].pc = "done"

\* a known url that is neither pending nor held by a worker
Consumed(u) == u \in urls /\ u \notin Pending /\ u \notin InFlight

\* C9: the step that denies a popped request only removes it from pending:
\* no permit, no navigation, nothing into failed or complete, its worker
\* back at the head of the loop; and a known url that is neither pending
\* nor held by a worker is not pending and not rendered after any step.
C9_DeniedIsSkipped ==
    /\ [][lastOp' = "deny" =>
             /\ requests' = Tail(requests)
             /\ failed' = failed /\ complete' = complete
             /\ permits' = permits /\ level' = level
             /\ navigations' = navigations /\ renders' = renders
             /\ \A u \in {Head(requests).url} : Consumed(u)'
             /\ crawlers' = crawlers /\ phase' = "running"
             /\ \E w \in DOMAIN crawlers : crawlers'[w].pc = "loop"]_vars
    /\ [][\A u \in ValidUrls :
             Consumed(u) => Consumed(u)' /\ renders'[u] = renders[u]]_vars

C9_Witness ==
    /\ lastOp = "deny" /\ requests = <<>>
    /\ \E w \in DOMAIN crawlers : crawlers[w].pc = "goto"

\* C10: the navigations issued, with those the workers past the limiter are
\* about to issue, never exceed the permits the one limiter has granted.
C10_PermitBeforeGoto ==
    navigations + Cardinality({w \in DOMAIN crawlers : crawlers[w].pc = "goto"}) <= permits

C10_Witness ==
    /\ navigations >= 1 /\ permits = navigations + 1
    /\ \E w \in DOMAIN crawlers : crawlers[w].pc = "goto"
    /\ \E w \in DOMAIN crawlers : crawlers[w].pc = "handle"

\* C11: clear leaves pending, failed, complete and the known set empty, and
\* the add that follows it inserts its url as the only pending entry unless
\* the url is malformed.
C11_ClearThenAdd ==
    /\ [][lastOp' = "clear" =>
             /\ requests' = <<>> /\ failed' = {} /\ complete' = {}
             /\ urls' = {}]_vars
    /\ [][(lastOp = "clear" /\ lastOp' \in {"add", "add_known", "add_invalid"}) =>
             \/ lastOp' = "add_invalid" /\ requests' = <<>>
             \/ /\ lastOp' = "add" /\ Len(requests') = 1
                /\ urls' = Keys(requests')]_vars

\* a url that was popped and recorded as failed is pending again, after the
\* clear that emptied failed
C11_Witness ==
    /\ lastOp = "add" /\ failed = {} /\ Len(requests) = 1
    /\ fails[requests[1].url] >= 1

\* C12: construction with concurrency < 1 or max_retries < 0 fails, so that
\* no crawler exists with such values, and construction fails for no other
\* values.
C12_InvalidOptionsRejected ==
    /\ phase \notin {"constructing", "config_error"} =>
           concurrency >= 1 /\ max_retries >= 0
    /\ phase = "config_error" => concurrency < 1 \/ max_retries < 0

\* C13: a can_fetch call of the caching checker fetches exactly when the
\* origin of its url has no cached rules document, so that the document of
\* an origin is fetched by the first call for it and by no later call.
C13_RulesFetchedOnce ==
    [][lastOp' \in {"allow", "deny"} =>
         LET u == Head(requests).url
             cached == u.netloc \in DOMAIN storage
         IN  \A response \in RobotsTexts :
                 can_fetch(obey_robots_txt, storage, u, response).fetched
                     = ~cached]_vars

\* C14: a failed render of a request with retries < max_retries appends the
\* request, its retries one higher, behind every pending request and leaves
\* failed alone; a failed render with retries = max_retries puts the url in
\* failed and leaves pending alone; and the retries of every pending or held
\* request are within 0..max_retries.
C14_RetryRequeued ==
    /\ [][lastOp' = "goto_fail" =>
             \A w \in DOMAIN crawlers : Stepped(w) =>
                 LET request == crawlers[w].request
                 IN  IF request.retries < max_retries
                     THEN /\ requests' = Append(requests,
                                 [request EXCEPT !.retries = @ + 1])
                          /\ failed' = failed
                     ELSE /\ failed' = failed \cup {request.url}
                          /\ requests' = requests]_vars
    /\ [](/\ \A i \in DOMAIN requests : requests[i].retries \in 0..max_retries
          /\ \A w \in DOMAIN crawlers :
                 crawlers[w].request.retries \in 0..max_retries)

\* C15: once the workers have started no worker loop is left through an
\* exception and run() does not raise: in particular a malformed link that
\* the page handler passes to extend ends neither the worker nor the run.
C15_NothingAborts ==
    /\ phase # "aborted"
    /\ \A w \in DOMAIN crawlers : crawlers[w].pc # "crashed"

\* C16: when run() has returned every worker has left its loop holding no
\* request, and pending is empty.
C16_ReturnedMeansDrained ==
    phase = "finished" =>
        /\ requests = <<>>
        /\ \A w \in DOMAIN crawlers :
               crawlers[w].pc = "done" /\ crawlers[w].request = NoRequest

\* run() has returned from a run in which one worker left its loop without
\* ever holding a request and another rendered every url
C16_Witness ==
    /\ phase = "finished"
    /\ \E v, w \in DOMAIN crawlers :
           /\ crawlers[v].total_requests = 0
           /\ crawlers[w].total_requests = NumUrls
    /\ \A u \in ValidUrls : renders[u] = 1

\* the pending entries and the workers that hold url u
Holders(u) ==
    Cardinality({i \in DOMAIN requests : requests[i].url = u})
        + Cardinality({w \in DOMAIN crawlers : crawlers[w].request.url = u})

\* C17: whatever the workers discover and add, a url is at any time in at
\* most one place, one pending entry or one worker, and is rendered at most
\* once: one add inserted it and one pop delivered it.
C17_OneInsertOneDelivery ==
    \A u \in ValidUrls \cup {DiscoveredUrl} :
        Holders(u) <= 1 /\ renders[u] <= 1

\* two workers have each rendered one seeded page and run its handler; both
\* pages link to the url that was unknown until then, so both workers have
\* added it, and it is pending once
C17_Witness ==
    /\ concurrency = 2 /\ lastOp = "handle"
    /\ \A w \in DOMAIN crawlers :
           crawlers[w].total_requests = 1 /\ crawlers[w].pc = "loop"
    /\ renders[DiscoveredUrl] = 0
    /\ Len(requests) = 1 /\ requests[1].url = DiscoveredUrl

\* C18: no worker pops an empty queue: every step that pops starts with a
\* pending request and removes the oldest one, and the error of a pop on
\* the empty queue never occurs.
C18_NoPopOnEmpty ==
    /\ [](lastOp # "pop_empty")
    /\ [][lastOp' \in {"allow", "deny", "fetch_error"} =>
             requests # <<>> /\ requests' = Tail(requests)]_vars

\* two workers were at the loop head with one request pending: one popped
\* it and still holds it, the other has tested the queue since, found it
\* empty and left without ever popping
C18_Witness ==
    /\ lastOp = "exit" /\ requests = <<>> /\ phase = "running"
    /\ \E v, w \in DOMAIN crawlers :
           /\ crawlers[v].pc = "done" /\ crawlers[v].total_requests = 0
           /\ crawlers[w].pc \in {"limiter", "goto"}
           /\ crawlers[w].total_requests = 0

\* C19: in one process that never clears the queue, the known set holds the
\* urls of pending, failed and complete, no step removes a url from it, and
\* no step makes pending a known url that is not pending: a url enters
\* pending at most once.
C19_KnownSetOnlyGrows ==
    /\ [](Pending \cup failed \cup complete \subseteq urls)
    /\ [][urls \subseteq urls']_vars
    /\ [][\A u \in urls : u \notin Pending => u \notin Keys(requests')]_vars

\* every url is known and none is pending, one of them was denied or lost
\* to a fetch error without a render, and the page handler has just added
\* a well-formed link, which changed nothing, before the malformed link
\* behind it raised
C19_Witness ==
    /\ lastOp = "handle_error" /\ requests = <<>> /\ urls = ValidUrls
    /\ \E u \in ValidUrls : renders[u] = 0 /\ Consumed(u)

\* C20: a restart leaves every url that was popped and is not in failed or
\* complete, whether a worker holds it or it was rendered or denied before,
\* out of pending and out of the rebuilt known set; and an add of a url that
\* is not known makes it pending.
C20_PoppedIsNotDurable ==
    /\ [][lastOp' = "restart" =>
             \A u \in ValidUrls :
                 ((u \in InFlight \/ Consumed(u)) /\ u \notin failed \cup complete)
                     => u \notin urls' /\ u \notin Keys(requests')]_vars
    /\ [][\A u \in ValidUrls :
             (u \notin urls /\ AddRequest(u, None)) => u \in Keys(requests')]_vars

\* a page was rendered and its handler made the url it links to pending;
\* after a restart the caller has added the url of that page, and it is
\* pending again behind the one it discovered
C20_Witness ==
    /\ lastOp = "add" /\ phase = "idle" /\ Len(requests) = 2
    /\ requests[1].referer = BaseUrl /\ requests[2].referer = None
    /\ failed = {}

====
